---------------------------- MODULE Spec2Model ----------------------------
(***************************************************************************)
(* Model of the raw-socket listener and TCP reassembly engine of httpcap   *)
(* (package raw_socket): the packet decoder (tcp_packet.go), the message   *)
(* assembler TCPMessage (tcp_message.go) and the Listener (listener.go).   *)
(*                                                                         *)
(* The specifications share the variables:                                 *)
(*   SpecFilter  the read loop: readRAWSocket, stripIPv4Header,            *)
(*               parsePacket, isIncomingDataPacket, ParseTCPPacket, on     *)
(*               byte buffers;                                             *)
(*   SpecStrip   stripIPv4Header on its own;                               *)
(*   Spec        the goroutines: router (Listener.listen), one listen      *)
(*               goroutine and the timer callbacks (Timeout) per           *)
(*               TCPMessage, the consumer (Receive, Bytes), and a clock;   *)
(*   SpecKeys    the same goroutines, fed by two peers;                    *)
(*   SpecFair    the same goroutines under fair scheduling;                *)
(*   SpecStall   the same goroutines under fair scheduling, with a         *)
(*               consumer that may stall, from a state in which the        *)
(*               outbound channel is full;                                 *)
(*   SpecMsg     one TCPMessage used sequentially: AddPacket and the       *)
(*               accessors.                                                *)
(*                                                                         *)
(* tcp_message.go names the packet fields tcp.Seq, tcp.Payload,            *)
(* tcp.SrcPort and tcp.DstPort; the TCPPacket of this repository calls     *)
(* them Seq, Data, SrcPort and DestPort, and the model uses those names.   *)
(***************************************************************************)
EXTENDS Integers, Sequences, FiniteSets, TLC

VARIABLES
    \* ---- Listener (listener.go:24-34) and the reader goroutine
    port,           \* Listener.port
    buf,            \* readRAWSocket's reusable read buffer
    c_packets,      \* Listener.c_packets: decoded packets, reader -> router
    messages,       \* Listener.messages: m_id -> TCPMessage (heap index)
    c_del_message,  \* Listener.c_del_message: TCPMessage -> router
    c_messages,     \* Listener.c_messages: router -> Receive
    router,         \* the goroutine of Listener.listen: [pc, packet, message]
    \* ---- TCPMessage objects (tcp_message.go:16-25), in allocation order
    msgs,           \* heap of TCPMessage: [ID, packets, closed, timer]
    gor,            \* per TCPMessage: its listen goroutine, then its Timeout goroutines
    \* ---- the consumer (RAWInput.listen) or a sequential caller
    consumer,       \* [pc, m]: the message Receive returned
    ret,            \* what the last accessor / Bytes call returned
    \* ---- environment
    now,            \* the clock, in milliseconds
    crashed,        \* an unrecovered panic ended the process
    \* ---- history, for stating the claims
    verdict,        \* what the last parsePacket did with its buffer
    hist            \* per packet and per TCPMessage: what has happened to it

vars == <<port, buf, c_packets, messages, c_del_message, c_messages, router,
          msgs, gor, consumer, ret, now, crashed, verdict, hist>>

-----------------------------------------------------------------------------
(* Bounds of the model *)

\* capacity given to the three Listener channels (100 in NewListener)
ChanCap == 1
\* size given to the reusable read buffer (4096*2 in readRAWSocket); it
\* stays above the longest IPv4 header (60 bytes), as the real one does
BufSize == 64
\* raw datagrams the read loop reads in SpecFilter
MaxReads == 2
\* packets the reader feeds in Spec
MaxPkts == 2
\* TCPMessage objects the router allocates
MaxMsgs == 3
\* Timeout goroutines of one TCPMessage alive at the same time
MaxTimeouts == 2
\* clock steps, of MSG_EXPIRE each
MaxTicks == 2
\* calls made on the TCPMessage in SpecMsg
MaxCalls == 4
\* packets the reader has fed in SpecStall, the three of InitStall included
StallPkts == 5

\* tcp_message.go:8, in milliseconds
MSG_EXPIRE == 2000

PANIC == "panic"
ACCEPT == "accept"
REJECT == "reject"
NONE == "none"

-----------------------------------------------------------------------------
(* Bytes, slices, strings *)

RECURSIVE Zeros(_)
Zeros(n) == IF n <= 0 THEN <<>> ELSE <<0>> \o Zeros(n - 1)

\* A Go slice: its backing array from the slice's start up to its capacity,
\* and its length.
Slice(arr, n) == [arr |-> arr, len |-> n]
Cap(s) == Len(s.arr)
\* s[i], Go's 0-based index; the caller has checked i < s.len
At(s, i) == s.arr[i + 1]

\* binary.BigEndian.Uint16(s[i:i+2]) and Uint32(s[i:i+4])
Uint16(s, i) == At(s, i) * 256 + At(s, i + 1)
Uint32(s, i) ==
    ((At(s, i) * 256 + At(s, i + 1)) * 256 + At(s, i + 2)) * 256 + At(s, i + 3)

Digit(d) ==
    CASE d = 0 -> "0" [] d = 1 -> "1" [] d = 2 -> "2" [] d = 3 -> "3"
      [] d = 4 -> "4" [] d = 5 -> "5" [] d = 6 -> "6" [] d = 7 -> "7"
      [] d = 8 -> "8" [] d = 9 -> "9"

\* strconv.Itoa, for the non-negative values the model passes
RECURSIVE Itoa(_)
Itoa(n) == IF n < 10 THEN Digit(n) ELSE Itoa(n \div 10) \o Digit(n % 10)

\* inet_ntoa(ipnr).String(): the dotted quad of a 32-bit address
inet_ntoa(ipnr) ==
    LET b0 == ipnr % 256
        b1 == (ipnr \div 256) % 256
        b2 == (ipnr \div 65536) % 256
        b3 == (ipnr \div 16777216) % 256
    IN  Itoa(b3) \o "." \o Itoa(b2) \o "." \o Itoa(b1) \o "." \o Itoa(b0)

-----------------------------------------------------------------------------
(* Packet decoder: tcp_packet.go *)

\* TCPPacket.ParseBasic on a packet whose Data is the slice b. panic: an
\* index (checked against the length) or a slice bound (checked against the
\* capacity, and low <= high) is out of range.
ParseBasic(b) ==
    IF Cap(b) < 12 \/ b.len <= 12 THEN [panic |-> TRUE]
    ELSE LET DataOffset == (At(b, 12) \div 16) % 16
             off == (DataOffset * 4) % 256
         IN  IF off > b.len THEN [panic |-> TRUE]
             ELSE [panic      |-> FALSE,
                   SrcPort    |-> Uint16(b, 0),
                   DestPort   |-> Uint16(b, 2),
                   Seq        |-> Uint32(b, 4),
                   Ack        |-> Uint32(b, 8),
                   DataOffset |-> DataOffset,
                   Data       |-> SubSeq(b.arr, off + 1, b.len)]

\* ParseTCPPacket(addr, src_ip, dest_ip, b); ptr is the identity of the
\* allocated *TCPPacket.
ParseTCPPacket(ptr, addr, src_ip, dest_ip, b) ==
    LET p == ParseBasic(b)
    IN  IF p.panic THEN [panic |-> TRUE]
        ELSE [panic |-> FALSE, ptr |-> ptr,
              SrcPort |-> p.SrcPort, DestPort |-> p.DestPort,
              Seq |-> p.Seq, Ack |-> p.Ack, DataOffset |-> p.DataOffset,
              Data |-> p.Data, Addr |-> addr, SrcIP |-> src_ip,
              DestIP |-> dest_ip]

-----------------------------------------------------------------------------
(* Filter: listener.go *)

\* Listener.isHeartbeatPackage(buf, dataOffset)
isHeartbeatPackage(b, dataOffset) ==
    /\ b.len - ((dataOffset * 4) % 256) = 1
    /\ At(b, b.len - 1) = 0

\* hasData with the length test off by one (>= for >)
hasData_ge(b) ==
    IF b.len <= 12 THEN PANIC
    ELSE LET dataOffset == (At(b, 12) \div 16) % 16
         IN  IF b.len >= (dataOffset * 4) % 256 /\ ~isHeartbeatPackage(b, dataOffset)
             THEN ACCEPT ELSE REJECT

\* The test both branches of isIncomingDataPacket make once the port matched:
\* buf[12] is read first, and panics on a buffer of 12 bytes or fewer.
hasData(b) ==
    IF b.len <= 12 THEN PANIC
    ELSE LET dataOffset == (At(b, 12) \div 16) % 16
         IN  IF b.len > (dataOffset * 4) % 256 /\ ~isHeartbeatPackage(b, dataOffset)
             THEN ACCEPT ELSE REJECT

\* Listener.isIncomingDataPacket(buf) with t.port = p: ACCEPT (true), REJECT
\* (false) or PANIC. buf[:2] and buf[2:4] are bounded by the capacity of buf,
\* not by its length.
isIncomingDataPacket(p, b) ==
    IF Cap(b) < 4 THEN PANIC
    ELSE LET src_port  == Uint16(b, 0)
             dest_port == Uint16(b, 2)
         IN  IF p <= 0 THEN hasData(b)
             ELSE IF dest_port = p \/ src_port = p THEN hasData(b)
             ELSE REJECT

\* Listener.parsePacket(addr, src_ip, dest_ip, buf): what the filter said and,
\* on ACCEPT, the packet decoded from a copy of buf (capacity = length).
parsePacket(p, ptr, addr, src_ip, dest_ip, b) ==
    LET v == isIncomingDataPacket(p, b)
    IN  IF v # ACCEPT THEN [verdict |-> v]
        ELSE LET new_buf == Slice(SubSeq(b.arr, 1, b.len), b.len)
                 pkt == ParseTCPPacket(ptr, addr, src_ip, dest_ip, new_buf)
             IN  IF pkt.panic THEN [verdict |-> PANIC]
                 ELSE [verdict |-> ACCEPT, packet |-> pkt]

\* stripIPv4Header that refuses a header as long as the buffer (>= for >)
stripIPv4Header_ge(n, b) ==
    IF Len(b) < 20 THEN [n |-> n, b |-> b]
    ELSE LET l == (b[1] % 16) * 4
         IN  IF 20 > l \/ l >= Len(b) THEN [n |-> n, b |-> b]
             ELSE IF b[1] \div 16 # 4 THEN [n |-> n, b |-> b]
             ELSE [n |-> n - l,
                   b |-> SubSeq(b, l + 1, Len(b)) \o SubSeq(b, Len(b) - l + 1, Len(b))]

\* stripIPv4Header(n, b): the returned length and the buffer afterwards
stripIPv4Header(n, b) ==
    IF Len(b) < 20 THEN [n |-> n, b |-> b]
    ELSE LET l == (b[1] % 16) * 4
         IN  IF 20 > l \/ l > Len(b) THEN [n |-> n, b |-> b]
             ELSE IF b[1] \div 16 # 4 THEN [n |-> n, b |-> b]
             ELSE [n |-> n - l,
                   b |-> SubSeq(b, l + 1, Len(b)) \o SubSeq(b, Len(b) - l + 1, Len(b))]

-----------------------------------------------------------------------------
(* What the raw socket delivers *)

U16(x) == <<(x \div 256) % 256, x % 256>>
U32(x) == <<(x \div 16777216) % 256, (x \div 65536) % 256, (x \div 256) % 256, x % 256>>
Trunc(b, k) == SubSeq(b, 1, IF k < Len(b) THEN k ELSE Len(b))

\* A TCP segment: the 20 fixed header bytes (flags PSH|ACK), the option bytes
\* that data offset off announces beyond 5 words, and the payload.
TCPSegment(sp, dp, seq, ack, off, payload) ==
    U16(sp) \o U16(dp) \o U32(seq) \o U32(ack) \o <<(off % 16) * 16, 24>>
        \o U16(8192) \o <<0, 0, 0, 0>> \o Zeros((off - 5) * 4) \o payload

\* An IPv4 header whose first byte is vihl (version and header length nibbles)
IPv4Header(vihl, src, dst) ==
    <<vihl, 0, 0, 0, 0, 0, 0, 0, 64, 6, 0, 0>> \o src \o dst
        \o Zeros(((vihl % 16) - 5) * 4)

PeerIP == <<10, 0, 0, 1>>
HostIP == <<10, 0, 0, 9>>

\* The segments of SpecFilter: every boundary of the filter, with port pairs
\* that match the configured port by source, by destination, by neither, and
\* only in the low byte.
FilterSegments ==
    LET seg(sp, dp, off, pl) == TCPSegment(sp, dp, 1000, 42, off, pl)
    IN  { seg(80, 54321, 5, <<>>),          \* length = data_offset*4
          seg(80, 54321, 5, <<0>>),         \* heartbeat
          seg(80, 54321, 5, <<1>>),
          seg(80, 54321, 5, <<0, 0>>),
          seg(80, 54321, 5, <<104, 105>>),
          seg(80, 54321, 6, <<0>>),         \* heartbeat behind options
          seg(80, 54321, 6, <<1>>),
          Trunc(seg(80, 54321, 6, <<>>), 21), \* shorter than data_offset*4
          seg(80, 54321, 0, <<>>),          \* data offset 0
          Trunc(seg(80, 54321, 5, <<>>), 13),
          Trunc(seg(80, 54321, 5, <<>>), 12), \* no byte 12
          Trunc(seg(80, 54321, 5, <<>>), 3),
          Trunc(seg(1000, 1001, 5, <<>>), 3),
          seg(1000, 80, 5, <<1>>),
          seg(1000, 1001, 5, <<1>>),
          seg(336, 54321, 5, <<1>>),
          seg(1000, 1001, 5, <<0>>) }

\* The datagrams of SpecFilter: each segment behind a 20-byte IPv4 header, and
\* one segment behind headers stripIPv4Header leaves in place or strips at
\* another length.
RawInputs ==
    { IPv4Header(69, PeerIP, HostIP) \o sg : sg \in FilterSegments }
    \cup { IPv4Header(v, PeerIP, HostIP) \o TCPSegment(80, 54321, 1000, 42, 5, <<1>>)
             : v \in {70, 68, 101} }

Ports == {-1, 0, 80}

-----------------------------------------------------------------------------
(* The reader goroutine: Listener.readRAWSocket, off Windows *)

\* The history after one more packet was pushed into c_packets
Pushed(h) == [h EXCEPT !.fed = @ + 1, !.added = Append(@, 0)]

\* One iteration of the read loop whose ReadMsgIP returned the datagram raw
\* (n = Len(raw), err = nil) from the peer the datagram names as its source.
readRAWSocket(raw) ==
    /\ ~crashed
    /\ hist.reads < MaxReads
    /\ LET n0      == Len(raw)
           read    == raw \o SubSeq(buf, n0 + 1, Len(buf))
           src_ip  == inet_ntoa(Uint32(Slice(read, Len(read)), 12))
           dest_ip == inet_ntoa(Uint32(Slice(read, Len(read)), 16))
           st      == stripIPv4Header(n0, read)
       IN  /\ buf' = st.b
           /\ IF st.n > 0
              THEN LET res == parsePacket(port, hist.fed + 1, src_ip, src_ip,
                                          dest_ip, Slice(st.b, st.n))
                   IN  /\ verdict' = [n |-> st.n, v |-> res.verdict]
                       /\ crashed' = (res.verdict = PANIC)
                       /\ IF res.verdict = ACCEPT
                          THEN /\ Len(c_packets) < ChanCap
                               /\ c_packets' = Append(c_packets, res.packet)
                               /\ hist' = [Pushed(hist) EXCEPT !.reads = @ + 1]
                          ELSE /\ c_packets' = c_packets
                               /\ hist' = [hist EXCEPT !.reads = @ + 1]
              ELSE /\ verdict' = [n |-> st.n, v |-> NONE]
                   /\ hist' = [hist EXCEPT !.reads = @ + 1]
                   /\ UNCHANGED <<c_packets, crashed>>
    /\ UNCHANGED <<port, messages, c_del_message, c_messages, router, msgs, gor,
                   consumer, ret, now>>

\* One iteration whose ReadMsgIP failed (n = 0, err # nil): the header is
\* still stripped from what the buffer holds, then the error is logged.
readError ==
    /\ ~crashed
    /\ hist.reads < MaxReads
    /\ buf' = stripIPv4Header(0, buf).b
    /\ verdict' = [n |-> 0, v |-> NONE]
    /\ hist' = [hist EXCEPT !.reads = @ + 1]
    /\ UNCHANGED <<port, c_packets, messages, c_del_message, c_messages, router,
                   msgs, gor, consumer, ret, now, crashed>>

\* reads, fed: datagrams read and packets pushed into c_packets so far;
\* added[ptr]: AddPacket calls made with packet ptr; dropped: the packets whose
\* send panicked; discarded: the packets AddPacket found held already; m[a]:
\* what happened to TCPMessage a (see NewHist).
InitHist ==
    [reads |-> 0, fed |-> 0, added |-> <<>>, dropped |-> {}, discarded |-> {},
     m |-> <<>>]

InitRest ==
    /\ c_packets = <<>>
    /\ messages = <<>>
    /\ c_del_message = <<>>
    /\ c_messages = <<>>
    /\ router = [pc |-> "select"]
    /\ msgs = <<>>
    /\ gor = <<>>
    /\ consumer = [pc |-> "recv"]
    /\ ret = <<>>
    /\ now = 0
    /\ crashed = FALSE
    /\ verdict = [n |-> 0, v |-> NONE]
    /\ hist = InitHist

\* NewListener with any port string, the read buffer freshly made
InitFilter ==
    /\ port \in Ports
    /\ buf = Zeros(BufSize)
    /\ InitRest

NextFilter ==
    \/ \E raw \in RawInputs : readRAWSocket(raw)
    \/ readError

SpecFilter == InitFilter /\ [][NextFilter]_vars

-----------------------------------------------------------------------------
(* Claims about the filter and the decoder (SpecFilter) *)

\* The buffer the last iteration handed to parsePacket: buf[:n]
lastBuf == Slice(buf, verdict.n)

\* The three conditions of the filter, read off a buffer that has a data
\* offset byte (byte 12) at all.
C5_Conditions(p, b) ==
    /\ b.len > 12
    /\ LET src_port    == b.arr[1] * 256 + b.arr[2]
           dest_port   == b.arr[3] * 256 + b.arr[4]
           data_offset == b.arr[13] \div 16
       IN  /\ p <= 0 \/ src_port = p \/ dest_port = p
           /\ b.len > data_offset * 4
           /\ ~(b.len - data_offset * 4 = 1 /\ b.arr[b.len] = 0)

\* C5: isIncomingDataPacket accepts a buffer if and only if the port matches
\* (or no port is configured), the buffer is longer than data_offset*4, and
\* the payload is not the single byte 0x00; and only accepted packets are in
\* the channel to the routing loop: each packet there matches the port, has a
\* payload, and is no heartbeat.
C5_FilterAcceptsIff ==
    /\ verdict.n > 0 =>
         ((verdict.v = ACCEPT) <=> C5_Conditions(port, lastBuf))
    /\ \A i \in 1..Len(c_packets) :
         /\ port <= 0 \/ c_packets[i].SrcPort = port \/ c_packets[i].DestPort = port
         /\ c_packets[i].Data # <<>>
         /\ c_packets[i].Data # <<0>>
    /\ Len(c_packets) = hist.fed
    /\ (verdict.v # ACCEPT /\ hist.reads = 1) => c_packets = <<>>

\* C5's case: with port 80 configured, a segment from port 80 that carries the
\* one byte 0x01 was accepted and decoded.
C5_Witness ==
    /\ port = 80
    /\ verdict.v = ACCEPT
    /\ verdict.n = 21
    /\ c_packets # <<>>
    /\ c_packets[Len(c_packets)].Data = <<1>>
    /\ c_packets[Len(c_packets)].SrcPort = 80

\* C6: the core never panics on packet content: whatever the read loop hands
\* to the filter and the decoder, the reader reaches no crash state.
C6_NeverPanics == ~crashed

-----------------------------------------------------------------------------
(* TCPMessage: tcp_message.go *)

\* One goroutine of a TCPMessage: gor[a][1] runs listen, gor[a][2..] run the
\* timer's callbacks Timeout. A Timeout goroutine that is not running is idle.
ListenG == 1
TimeoutGs == 2..(MaxTimeouts + 1)
Idle == [pc |-> "idle"]

\* time.AfterFunc(MSG_EXPIRE, ..) and timer.Reset(MSG_EXPIRE) at time t
Armed(t) == [armed |-> TRUE, at |-> t + MSG_EXPIRE]

\* History of one TCPMessage: when it last took a packet off c_packets, when
\* and by which expiry it was closed and what it held then, and how often it
\* was closed, sent to c_del_message, sent to c_messages and deleted.
NewHist(t) ==
    [lastRecv |-> t, closedAt |-> 0, closerAt |-> 0, held |-> <<>>, closes |-> 0,
     notified |-> 0, published |-> 0, deleted |-> 0, addsAfterClose |-> 0]

\* NewTCPMessage(ID, c_del) at time t: the object, and its goroutines
NewTCPMessage(ID, t) ==
    [ID |-> ID, packets |-> <<>>, closed |-> FALSE, timer |-> Armed(t)]
NewGoroutines == <<[pc |-> "recv"]>> \o [i \in 1..MaxTimeouts |-> Idle]

\* the loop of AddPacket: is packet's sequence number among those held
packetFound(held, packet) == \E i \in 1..Len(held) : held[i].Seq = packet.Seq

\* where a goroutine goes when AddPacket returns: listen loops, Timeout ends
AfterAdd(g) == IF g = ListenG THEN [pc |-> "recv"] ELSE Idle

\* A goroutine of a has received packet from c_packets and calls AddPacket
CallAddPacket(packet) == [pc |-> "scan", packet |-> packet]

\* AddPacket, lines 129-136: the scan of t.packets
AddPacket_scan(a, g) ==
    /\ ~crashed
    /\ a \in 1..Len(msgs) /\ g \in 1..Len(gor[a])
    /\ gor[a][g].pc = "scan"
    /\ gor' = [gor EXCEPT ![a][g] =
                 IF packetFound(msgs[a].packets, gor[a][g].packet)
                 THEN [pc |-> "reset", packet |-> @.packet]
                 ELSE [pc |-> "load", packet |-> @.packet]]
    /\ UNCHANGED <<port, buf, c_packets, messages, c_del_message, c_messages,
                   router, msgs, consumer, ret, now, crashed, verdict, hist>>

\* AddPacket, line 141: append reads the slice t.packets ...
AddPacket_load(a, g) ==
    /\ ~crashed
    /\ a \in 1..Len(msgs) /\ g \in 1..Len(gor[a])
    /\ gor[a][g].pc = "load"
    /\ gor' = [gor EXCEPT ![a][g] =
                 [pc |-> "store", packet |-> @.packet, base |-> msgs[a].packets]]
    /\ UNCHANGED <<port, buf, c_packets, messages, c_del_message, c_messages,
                   router, msgs, consumer, ret, now, crashed, verdict, hist>>

\* What AddPacket leaves in t.packets and t.timer when it appends (lines 141
\* and 145) at time t, having read the slice as base.
Appended(m, base, packet, t) ==
    [m EXCEPT !.packets = Append(base, packet), !.timer = Armed(t)]

\* Discarded without the timer reset
Discarded_noReset(m, t) == m

\* What AddPacket leaves when the packet was found (line 145 only).
Discarded(m, t) == [m EXCEPT !.timer = Armed(t)]

\* ... and writes it back with the packet behind what it read; then line 145
\* resets the timer and AddPacket returns.
AddPacket_store(a, g) ==
    /\ ~crashed
    /\ a \in 1..Len(msgs) /\ g \in 1..Len(gor[a])
    /\ gor[a][g].pc = "store"
    /\ msgs' = [msgs EXCEPT ![a] = Appended(@, gor[a][g].base, gor[a][g].packet, now)]
    /\ gor' = [gor EXCEPT ![a][g] = AfterAdd(g)]
    /\ hist' = [hist EXCEPT !.m[a].addsAfterClose =
                                IF msgs[a].closed THEN @ + 1 ELSE @]
    /\ UNCHANGED <<port, buf, c_packets, messages, c_del_message, c_messages,
                   router, consumer, ret, now, crashed, verdict>>

\* AddPacket when the packet was found: nothing is appended, line 145 resets
\* the timer and AddPacket returns.
AddPacket_reset(a, g) ==
    /\ ~crashed
    /\ a \in 1..Len(msgs) /\ g \in 1..Len(gor[a])
    /\ gor[a][g].pc = "reset"
    /\ msgs' = [msgs EXCEPT ![a] = Discarded(@, now)]
    /\ gor' = [gor EXCEPT ![a][g] = AfterAdd(g)]
    /\ hist' = [hist EXCEPT !.discarded = @ \cup {gor[a][g].packet.ptr}]
    /\ UNCHANGED <<port, buf, c_packets, messages, c_del_message, c_messages,
                   router, consumer, ret, now, crashed, verdict>>

\* The router is parked in its send on a's c_packets
RouterBlockedOn(a) == router.pc = "blocked" /\ router.message = a

\* A goroutine of a takes the packet of the router parked in its send
TakeFromRouter(a, g) ==
    /\ gor' = [gor EXCEPT ![a][g] = CallAddPacket(router.packet)]
    /\ router' = [pc |-> "select"]
    /\ hist' = [hist EXCEPT !.added[router.packet.ptr] = @ + 1,
                            !.m[a].lastRecv = now]

\* listen, line 45: receive from c_packets. A sender is parked: its packet is
\* taken. The channel is closed: listen returns. Otherwise listen parks.
listen_recv(a) ==
    /\ ~crashed
    /\ a \in 1..Len(msgs)
    /\ gor[a][ListenG].pc = "recv"
    /\ IF msgs[a].closed
       THEN /\ gor' = [gor EXCEPT ![a][ListenG] = [pc |-> "done"]]
            /\ UNCHANGED <<router, hist>>
       ELSE IF RouterBlockedOn(a)
       THEN TakeFromRouter(a, ListenG)
       ELSE /\ gor' = [gor EXCEPT ![a][ListenG] = [pc |-> "parked"]]
            /\ UNCHANGED <<router, hist>>
    /\ UNCHANGED <<port, buf, c_packets, messages, c_del_message, c_messages,
                   msgs, consumer, ret, now, crashed, verdict>>

\* listen parked in its receive is woken by close: more = false, it returns
listen_closed(a) ==
    /\ ~crashed
    /\ a \in 1..Len(msgs)
    /\ gor[a][ListenG].pc = "parked"
    /\ msgs[a].closed
    /\ gor' = [gor EXCEPT ![a][ListenG] = [pc |-> "done"]]
    /\ UNCHANGED <<port, buf, c_packets, messages, c_del_message, c_messages,
                   router, msgs, consumer, ret, now, crashed, verdict, hist>>

\* The runtime timer of a expires: it is no longer armed and its callback
\* Timeout starts in a goroutine of its own (time.AfterFunc).
TimerFires(a) ==
    /\ ~crashed
    /\ a \in 1..Len(msgs)
    /\ msgs[a].timer.armed
    /\ now >= msgs[a].timer.at
    /\ \E g \in TimeoutGs :
         /\ gor[a][g] = Idle
         /\ \A h \in TimeoutGs : h < g => gor[a][h] # Idle
         /\ gor' = [gor EXCEPT ![a][g] = [pc |-> "select", at |-> msgs[a].timer.at]]
    /\ msgs' = [msgs EXCEPT ![a].timer.armed = FALSE]
    /\ UNCHANGED <<port, buf, c_packets, messages, c_del_message, c_messages,
                   router, consumer, ret, now, crashed, verdict, hist>>

\* What Timeout's select (lines 58-67) chooses: "closed" (the receive yields
\* ok = false), "packet" (a parked sender's packet) or "default".
TimeoutSelect(closed, senderParked) ==
    IF closed THEN "closed" ELSE IF senderParked THEN "packet" ELSE "default"

\* Timeout, lines 58-67: the select
Timeout_select(a, g) ==
    /\ ~crashed
    /\ a \in 1..Len(msgs) /\ g \in TimeoutGs
    /\ gor[a][g].pc = "select"
    /\ LET choice == TimeoutSelect(msgs[a].closed, RouterBlockedOn(a))
       IN  IF choice = "closed"
           THEN /\ gor' = [gor EXCEPT ![a][g] = Idle]
                /\ UNCHANGED <<router, hist>>
           ELSE IF choice = "packet"
           THEN TakeFromRouter(a, g)
           ELSE /\ gor' = [gor EXCEPT ![a][g] = [pc |-> "close", at |-> @.at]]
                /\ UNCHANGED <<router, hist>>
    /\ UNCHANGED <<port, buf, c_packets, messages, c_del_message, c_messages,
                   msgs, consumer, ret, now, crashed, verdict>>

\* Timeout, line 68: close(t.c_packets); closing a closed channel panics, and
\* nothing recovers a panic in the timer's goroutine.
Timeout_close(a, g) ==
    /\ ~crashed
    /\ a \in 1..Len(msgs) /\ g \in TimeoutGs
    /\ gor[a][g].pc = "close"
    /\ IF msgs[a].closed
       THEN /\ crashed' = TRUE
            /\ hist' = [hist EXCEPT !.m[a].closes = @ + 1]
            /\ UNCHANGED <<msgs, gor>>
       ELSE /\ msgs' = [msgs EXCEPT ![a].closed = TRUE]
            /\ gor' = [gor EXCEPT ![a][g] = [pc |-> "notify"]]
            /\ hist' = [hist EXCEPT !.m[a].closes = @ + 1,
                                    !.m[a].closedAt = now,
                                    !.m[a].closerAt = gor[a][g].at,
                                    !.m[a].held = msgs[a].packets]
            /\ UNCHANGED crashed
    /\ UNCHANGED <<port, buf, c_packets, messages, c_del_message, c_messages,
                   router, consumer, ret, now, verdict>>

\* Timeout, line 69: t.c_del_message <- t, blocking while the channel is full
Timeout_notify(a, g) ==
    /\ ~crashed
    /\ a \in 1..Len(msgs) /\ g \in TimeoutGs
    /\ gor[a][g].pc = "notify"
    /\ Len(c_del_message) < ChanCap
    /\ c_del_message' = Append(c_del_message, a)
    /\ gor' = [gor EXCEPT ![a][g] = Idle]
    /\ hist' = [hist EXCEPT !.m[a].notified = @ + 1]
    /\ UNCHANGED <<port, buf, c_packets, messages, c_messages, router, msgs,
                   consumer, ret, now, crashed, verdict>>

-----------------------------------------------------------------------------
(* The router goroutine: Listener.listen and processTCPPacket *)

\* processTCPPacket, line 220: the key of the packet's message
m_id(packet) == packet.Addr \o Itoa(packet.Ack)

\* a delete that removes nothing
Deleted_nothing(map, ID) == map

\* delete(t.messages, ID)
Deleted(map, ID) == [k \in DOMAIN map \ {ID} |-> map[k]]

\* listen, case packet := <-t.c_packets, and processTCPPacket lines 219-228:
\* the message of the packet is looked up, and made and inserted when the key
\* is absent.
processTCPPacket_lookup ==
    /\ ~crashed
    /\ router.pc = "select"
    /\ c_packets # <<>>
    /\ LET packet == Head(c_packets)
           ID     == m_id(packet)
       IN  IF ID \in DOMAIN messages
           THEN /\ router' = [pc |-> "send", packet |-> packet,
                              message |-> messages[ID]]
                /\ UNCHANGED <<messages, msgs, gor, hist>>
           ELSE /\ Len(msgs) < MaxMsgs
                /\ msgs' = Append(msgs, NewTCPMessage(ID, now))
                /\ gor' = Append(gor, NewGoroutines)
                /\ messages' = (ID :> (Len(msgs) + 1)) @@ messages
                /\ hist' = [hist EXCEPT !.m = Append(@, NewHist(now))]
                /\ router' = [pc |-> "send", packet |-> packet,
                              message |-> Len(msgs) + 1]
    /\ c_packets' = Tail(c_packets)
    /\ UNCHANGED <<port, buf, c_del_message, c_messages, consumer, ret, now,
                   crashed, verdict>>

\* What the send of line 231 does when the router reaches it: "panic" on a
\* closed channel, "handoff" to a parked receiver, otherwise the router parks.
SendOutcome(closed, receiverParked) ==
    IF closed THEN "panic" ELSE IF receiverParked THEN "handoff" ELSE "park"

\* a panic that nothing recovers: the goroutine of listen is gone
Recovered_not(r) == [pc |-> "dead"]

\* processTCPPacket, line 217: the deferred recover() stops the panic of the
\* send; processTCPPacket returns to listen, whose loop goes on to its select.
Recovered(r) == [pc |-> "select"]

\* processTCPPacket, line 231: message.c_packets <- packet. The panic of a send
\* on a closed channel is recovered by the deferred recover() of line 217: the
\* packet is gone and the router is back in its loop.
processTCPPacket_send ==
    /\ ~crashed
    /\ router.pc = "send"
    /\ LET a == router.message
           outcome == SendOutcome(msgs[a].closed, gor[a][ListenG].pc = "parked")
       IN  IF outcome = "panic"
           THEN /\ router' = Recovered(router)
                /\ hist' = [hist EXCEPT !.dropped = @ \cup {router.packet.ptr}]
                /\ UNCHANGED gor
           ELSE IF outcome = "handoff"
           THEN TakeFromRouter(a, ListenG)
           ELSE /\ router' = [router EXCEPT !.pc = "blocked"]
                /\ UNCHANGED <<gor, hist>>
    /\ UNCHANGED <<port, buf, c_packets, messages, c_del_message, c_messages,
                   msgs, consumer, ret, now, crashed, verdict>>

\* The router parked in its send when the channel is closed: the send panics,
\* and the panic is recovered as above.
processTCPPacket_closed ==
    /\ ~crashed
    /\ router.pc = "blocked"
    /\ msgs[router.message].closed
    /\ router' = Recovered(router)
    /\ hist' = [hist EXCEPT !.dropped = @ \cup {router.packet.ptr}]
    /\ UNCHANGED <<port, buf, c_packets, messages, c_del_message, c_messages,
                   msgs, gor, consumer, ret, now, crashed, verdict>>

\* listen, line 58: case message := <-t.c_del_message
listen_del ==
    /\ ~crashed
    /\ router.pc = "select"
    /\ c_del_message # <<>>
    /\ router' = [pc |-> "publish", message |-> Head(c_del_message)]
    /\ c_del_message' = Tail(c_del_message)
    /\ UNCHANGED <<port, buf, c_packets, messages, c_messages, msgs, gor,
                   consumer, ret, now, crashed, verdict, hist>>

\* listen, line 59: t.c_messages <- message, blocking while the channel is full
listen_publish ==
    /\ ~crashed
    /\ router.pc = "publish"
    /\ Len(c_messages) < ChanCap
    /\ c_messages' = Append(c_messages, router.message)
    /\ router' = [router EXCEPT !.pc = "delete"]
    /\ hist' = [hist EXCEPT !.m[router.message].published = @ + 1]
    /\ UNCHANGED <<port, buf, c_packets, messages, c_del_message, msgs, gor,
                   consumer, ret, now, crashed, verdict>>

\* listen, line 60 left out: the router goes back to its select without the
\* delete
listen_delete_skipped ==
    /\ ~crashed
    /\ router.pc = "delete"
    /\ router' = [pc |-> "select"]
    /\ hist' = [hist EXCEPT !.m[router.message].deleted = @ + 1]
    /\ UNCHANGED <<port, buf, c_packets, messages, c_del_message, c_messages,
                   msgs, gor, consumer, ret, now, crashed, verdict>>

\* listen, line 60: delete(t.messages, message.ID)
listen_delete ==
    /\ ~crashed
    /\ router.pc = "delete"
    /\ messages' = Deleted(messages, msgs[router.message].ID)
    /\ router' = [pc |-> "select"]
    /\ hist' = [hist EXCEPT !.m[router.message].deleted = @ + 1]
    /\ UNCHANGED <<port, buf, c_packets, c_del_message, c_messages, msgs, gor,
                   consumer, ret, now, crashed, verdict>>

-----------------------------------------------------------------------------
(* The consumer: Listener.Receive, TCPMessage.Bytes and the accessors *)

\* insertion of packet p into the sorted sequence s, behind the packets that
\* are not greater (BySeq.Less is a[i].Seq < a[j].Seq)
RECURSIVE Insert(_, _)
Insert(s, p) ==
    IF s = <<>> THEN <<p>>
    ELSE IF p.Seq < s[Len(s)].Seq
         THEN Append(Insert(SubSeq(s, 1, Len(s) - 1), p), s[Len(s)])
         ELSE Append(s, p)

\* sort.Sort(BySeq(packets)): for the short slices of the model, Go's sort is
\* an insertion sort
RECURSIVE SortBySeq(_)
SortBySeq(s) ==
    IF s = <<>> THEN <<>>
    ELSE Insert(SortBySeq(SubSeq(s, 1, Len(s) - 1)), s[Len(s)])

\* the loop of Bytes: the payloads of the packets, in the slice's order
RECURSIVE Payloads(_)
Payloads(s) == IF s = <<>> THEN <<>> ELSE Head(s).Data \o Payloads(Tail(s))

\* Listener.Receive, called by the consumer (RAWInput.listen line 55)
Receive ==
    /\ ~crashed
    /\ consumer.pc = "recv"
    /\ c_messages # <<>>
    /\ consumer' = [pc |-> "bytes", m |-> Head(c_messages)]
    /\ c_messages' = Tail(c_messages)
    /\ UNCHANGED <<port, buf, c_packets, messages, c_del_message, router, msgs,
                   gor, ret, now, crashed, verdict, hist>>

\* TCPMessage.Bytes on the message Receive returned (RAWInput.listen line 57):
\* t.packets is sorted in place, and the payloads are concatenated.
Bytes ==
    /\ ~crashed
    /\ consumer.pc = "bytes"
    /\ LET sorted == SortBySeq(msgs[consumer.m].packets)
       IN  /\ msgs' = [msgs EXCEPT ![consumer.m].packets = sorted]
           /\ ret' = [op |-> "Bytes", m |-> consumer.m, val |-> Payloads(sorted)]
    /\ consumer' = [pc |-> "recv"]
    /\ UNCHANGED <<port, buf, c_packets, messages, c_del_message, c_messages,
                   router, gor, now, crashed, verdict, hist>>

-----------------------------------------------------------------------------
(* The goroutines together *)

\* The segments the reader receives in Spec: two segments of one message
\* (ack 42) from one peer, sent from different ports, the later one first in
\* sequence order or not; each may be read again (a retransmission).
SpecSegments ==
    { TCPSegment(80, 54321, 1000, 42, 5, <<104>>),
      TCPSegment(81, 54321, 2000, 42, 5, <<119>>) }

\* One iteration of the read loop whose ReadMsgIP returned the segment seg from
\* peer (an address of four bytes), while fewer than max packets were fed: the
\* filter accepts it, and the decoded packet is sent to c_packets, blocking
\* while the channel is full.
ReaderFrom(peer, seg, max) ==
    /\ ~crashed
    /\ hist.fed < max
    /\ LET src_ip  == inet_ntoa(Uint32(Slice(peer, 4), 0))
           dest_ip == inet_ntoa(Uint32(Slice(HostIP, 4), 0))
           res     == parsePacket(port, hist.fed + 1, src_ip, src_ip, dest_ip,
                                  Slice(seg, Len(seg)))
       IN  /\ res.verdict = ACCEPT
           /\ Len(c_packets) < ChanCap
           /\ c_packets' = Append(c_packets, res.packet)
           /\ hist' = Pushed(hist)
    /\ UNCHANGED <<port, buf, messages, c_del_message, c_messages, router, msgs,
                   gor, consumer, ret, now, crashed, verdict>>

\* One iteration of the read loop that hands parsePacket a segment of
\* SpecSegments from peer 10.0.0.1
Reader(seg) == ReaderFrom(PeerIP, seg, MaxPkts)

\* Time passes
Tick ==
    /\ ~crashed
    /\ now < MaxTicks * MSG_EXPIRE
    /\ now' = now + MSG_EXPIRE
    /\ UNCHANGED <<port, buf, c_packets, messages, c_del_message, c_messages,
                   router, msgs, gor, consumer, ret, crashed, verdict, hist>>

\* NewListener(addr, "0")
Init ==
    /\ port = 0
    /\ buf = <<>>
    /\ InitRest

Msgs == 1..MaxMsgs
Gs == 1..(MaxTimeouts + 1)

\* The steps of the router and of the goroutines of the TCPMessages
Routing ==
    \/ processTCPPacket_lookup
    \/ processTCPPacket_send
    \/ processTCPPacket_closed
    \/ listen_del
    \/ listen_publish
    \/ listen_delete
    \/ \E a \in Msgs : listen_recv(a)
    \/ \E a \in Msgs : listen_closed(a)
    \/ \E a \in Msgs : TimerFires(a)
    \/ \E a \in Msgs, g \in Gs : Timeout_select(a, g)
    \/ \E a \in Msgs, g \in Gs : Timeout_close(a, g)
    \/ \E a \in Msgs, g \in Gs : Timeout_notify(a, g)
    \/ \E a \in Msgs, g \in Gs : AddPacket_scan(a, g)
    \/ \E a \in Msgs, g \in Gs : AddPacket_load(a, g)
    \/ \E a \in Msgs, g \in Gs : AddPacket_store(a, g)
    \/ \E a \in Msgs, g \in Gs : AddPacket_reset(a, g)

\* The steps of the consumer
Consuming ==
    \/ Receive
    \/ Bytes

Next ==
    \/ \E seg \in SpecSegments : Reader(seg)
    \/ Routing
    \/ Consuming
    \/ Tick

Spec == Init /\ [][Next]_vars

-----------------------------------------------------------------------------
(* Claims about the goroutines (Spec) *)

AllMsgs == 1..Len(msgs)

\* C1: every packet pushed into the Dispatcher is received by exactly one
\* Assembler: no packet is dropped by a send on a closed inbound channel, and
\* none is handed to AddPacket twice.
C1_NoPacketDropped ==
    \A ptr \in 1..hist.fed : ptr \notin hist.dropped /\ hist.added[ptr] <= 1

\* the packets of the set S by strictly ascending sequence number
RECURSIVE C2_Ascending(_)
C2_Ascending(S) ==
    IF S = {} THEN <<>>
    ELSE LET lo == CHOOSE p \in S : \A q \in S : p.Seq <= q.Seq
         IN  <<lo>> \o C2_Ascending(S \ {lo})

Range(s) == { s[i] : i \in 1..Len(s) }

\* C2: what Bytes returns for a message Receive returned is the concatenation
\* of the payloads of the packets the Assembler held when it completed, by
\* strictly ascending sequence number, no sequence number occurring twice.
C2_BytesOfHeldAscending ==
    (ret # <<>> /\ ret.op = "Bytes") =>
        LET held == hist.m[ret.m].held
        IN  /\ \A i, j \in 1..Len(held) : i # j => held[i].Seq # held[j].Seq
            /\ \A i, j \in 1..Len(msgs[ret.m].packets) :
                   i < j => msgs[ret.m].packets[i].Seq < msgs[ret.m].packets[j].Seq
            /\ ret.val = Payloads(C2_Ascending(Range(held)))

C7_Mapped(a) == msgs[a].ID \in DOMAIN messages /\ messages[msgs[a].ID] = a

\* C7 as stated: an Assembler is removed from the mapping before or at the
\* moment it is published: none that is on its way into c_messages (the router
\* blocked in that send) or has been put there is still in the mapping.
C7_RemovedBeforePublished ==
    \A a \in AllMsgs :
        (hist.m[a].published = 1 \/ (router.pc = "publish" /\ router.message = a))
            => ~C7_Mapped(a)

\* C7 amended: an Assembler is removed from the mapping right after it is
\* published: one that has been put into c_messages is out of the mapping,
\* unless the router stands between that send and the delete that follows it
\* (listen, lines 59 and 60); until the send it is in the mapping.
C7_RemovedRightAfterPublished ==
    \A a \in AllMsgs :
        /\ hist.m[a].published = 1 =>
              \/ ~C7_Mapped(a)
              \/ router.pc = "delete" /\ router.message = a
        /\ hist.m[a].published = 0 => C7_Mapped(a)

\* C7's case: an Assembler was published, the consumer has received it, and
\* the mapping no longer holds it.
C7_Witness ==
    \E a \in AllMsgs :
        /\ hist.m[a].published = 1
        /\ ~C7_Mapped(a)
        /\ consumer.pc = "bytes" /\ consumer.m = a

\* C4: an Assembler completes (closes its inbound channel) no earlier than
\* MSG_EXPIRE after it took its last packet, and the expiry that completes it
\* was armed no earlier than that packet was taken.
C4_CompletesAfterFullWindow ==
    \A a \in AllMsgs :
        msgs[a].closed =>
            /\ hist.m[a].closedAt >= hist.m[a].lastRecv + MSG_EXPIRE
            /\ hist.m[a].closerAt >= hist.m[a].lastRecv + MSG_EXPIRE

\* The goroutine g of a is in AddPacket with a packet whose sequence number is
\* held, at the moment AddPacket looks for it.
C9_FeedsHeld(a, g) ==
    /\ gor[a][g].pc = "scan"
    /\ \E i \in 1..Len(msgs[a].packets) :
           msgs[a].packets[i].Seq = gor[a][g].packet.Seq

\* C9: feeding an Assembler a packet whose sequence number is held leaves the
\* held packets, and so Bytes, unchanged, and the call still re-arms the timer
\* to a full MSG_EXPIRE: the call goes on to the reset alone, and that step
\* changes nothing of the Assembler but its timer.
C9_DuplicateDiscardedTimerReset ==
    [][\A a \in AllMsgs : \A g \in 1..Len(gor[a]) :
         /\ (C9_FeedsHeld(a, g) /\ gor'[a][g] # gor[a][g])
               => (gor'[a][g].pc = "reset" /\ msgs' = msgs)
         /\ (gor[a][g].pc = "reset" /\ gor'[a][g] # gor[a][g])
               => /\ msgs'[a].packets = msgs[a].packets
                  /\ Payloads(SortBySeq(msgs'[a].packets))
                       = Payloads(SortBySeq(msgs[a].packets))
                  /\ msgs'[a].timer = [armed |-> TRUE, at |-> now + MSG_EXPIRE]
                  /\ gor'[a][g].pc \in {"recv", "idle"}]_vars

\* C9's case: a retransmitted packet was discarded one window after the first
\* copy was added: one packet is held and the timer runs a full window again.
C9_Witness ==
    \E a \in AllMsgs :
        /\ hist.discarded # {}
        /\ Len(msgs[a].packets) = 1
        /\ now = MSG_EXPIRE
        /\ msgs[a].timer = [armed |-> TRUE, at |-> now + MSG_EXPIRE]
        /\ \A g \in 1..Len(gor[a]) : gor[a][g].pc \in {"recv", "parked", "idle"}

\* C10: however the Timeout callbacks of one Assembler run, its inbound
\* channel is closed at most once (no close of a closed channel) and it is
\* sent to the completion channel at most once.
C10_CompletesAtMostOnce ==
    \A a \in AllMsgs : hist.m[a].closes <= 1 /\ hist.m[a].notified <= 1

\* C11: once the completion path has closed an Assembler's inbound channel,
\* its held packets never change again: no AddPacket, from listen or from
\* Timeout, appends after the close, and the packets the consumer sees are
\* those held at the moment of the close.
C11_HeldUnchangedAfterClose ==
    \A a \in AllMsgs :
        msgs[a].closed =>
            /\ hist.m[a].addsAfterClose = 0
            /\ Len(msgs[a].packets) = Len(hist.m[a].held)
            /\ Range(msgs[a].packets) = Range(hist.m[a].held)

\* C12: in every reachable state of every Assembler no two held packets have
\* the same sequence number, also when listen and a Timeout each took a packet
\* from the inbound channel and run AddPacket at the same time.
C12_NoTwoHeldShareSeq ==
    \A a \in AllMsgs :
        \A i, j \in 1..Len(msgs[a].packets) :
            i # j => msgs[a].packets[i].Seq # msgs[a].packets[j].Seq

\* The goroutine g of a is inside AddPacket
C14_InAddPacket(a, g) == gor[a][g].pc \in {"scan", "load", "store", "reset"}

\* C14: the packets routed to one Assembler are added in the order the router
\* forwarded them (the order of their ptr): while the AddPacket of a packet
\* has not returned, the Assembler holds no packet the router forwarded later.
C14_AddedInRoutedOrder ==
    \A a \in AllMsgs : \A g \in 1..Len(gor[a]) :
        C14_InAddPacket(a, g) =>
            \A i \in 1..Len(msgs[a].packets) :
                msgs[a].packets[i].ptr <= gor[a][g].packet.ptr

\* The router is at the send of line 231, about to send or parked in it, and
\* the inbound channel of the Assembler it sends to is closed.
C15_SendsToClosed ==
    /\ router.pc \in {"send", "blocked"}
    /\ msgs[router.message].closed

\* C15: the router survives routing a packet to a just-completed Assembler:
\* when the channel it sends to is closed already, or is closed while the send
\* is blocked, the step that follows ends no goroutine and no process, leaves
\* the mapping and the Listener's channels as they are, and puts the router
\* back at the select of its loop, where it takes later packets and
\* completion notifications.
C15_RouterSurvivesClosedSend ==
    [][(C15_SendsToClosed /\ router' # router)
          => /\ router' = [pc |-> "select"]
             /\ messages' = messages
             /\ ~crashed'
             /\ c_packets' = c_packets
             /\ c_del_message' = c_del_message
             /\ msgs' = msgs]_vars

\* C15's case: the send of the first packet panicked on the closed channel;
\* afterwards the router processed the completion notification of that
\* Assembler and routed the second packet, which an Assembler received.
C15_Witness ==
    /\ ~crashed
    /\ hist.fed = 2
    /\ 1 \in hist.dropped
    /\ hist.added[2] = 1
    /\ hist.m[1].deleted = 1

-----------------------------------------------------------------------------
(* Two peers (SpecKeys) *)

\* The segments the reader receives in SpecKeys, each with the peer it comes
\* from: acknowledgment number 23 from 10.0.0.1 and acknowledgment number 3
\* from 10.0.0.12.
KeyInputs ==
    { [peer |-> <<10, 0, 0, 1>>,
       seg  |-> TCPSegment(80, 54321, 1000, 23, 5, <<104>>)],
      [peer |-> <<10, 0, 0, 12>>,
       seg  |-> TCPSegment(80, 54321, 2000, 3, 5, <<119>>)] }

NextKeys ==
    \/ \E in \in KeyInputs : ReaderFrom(in.peer, in.seg, MaxPkts)
    \/ Routing
    \/ Consuming
    \/ Tick

SpecKeys == Init /\ [][NextKeys]_vars

\* C13: all packets held by one Assembler have the same message key as a pair
\* (peer address, acknowledgment number): two packets whose pairs differ are
\* never routed to the same Assembler.
C13_HeldShareAddrAndAck ==
    \A a \in AllMsgs :
        \A i, j \in 1..Len(msgs[a].packets) :
            /\ msgs[a].packets[i].Addr = msgs[a].packets[j].Addr
            /\ msgs[a].packets[i].Ack = msgs[a].packets[j].Ack

-----------------------------------------------------------------------------
(* One TCPMessage used sequentially: AddPacket and the accessors (SpecMsg) *)

\* TCPMessage.SourcePort, DestinationPort, SourceIP, DestinationIP on the
\* slice packets: read from packets[0]
SourcePort(packets) == IF Len(packets) > 0 THEN packets[1].SrcPort ELSE 0
DestinationPort(packets) == IF Len(packets) > 0 THEN packets[1].DestPort ELSE 0
SourceIP(packets) == IF Len(packets) > 0 THEN packets[1].SrcIP ELSE "0.0.0.0"
DestinationIP(packets) == IF Len(packets) > 0 THEN packets[1].DestIP ELSE "0.0.0.0"
\* TCPMessage.SequenceNumber on the slice it has just sorted
SequenceNumber(sorted) == IF Len(sorted) > 0 THEN sorted[1].Seq ELSE 0

\* The packets fed in SpecMsg: three packets of one message from one peer,
\* with different sequence numbers and ports, as ParseTCPPacket decodes them.
MsgPackets ==
    LET src_ip  == inet_ntoa(Uint32(Slice(PeerIP, 4), 0))
        dest_ip == inet_ntoa(Uint32(Slice(HostIP, 4), 0))
        pkt(ptr, sp, dp, seq, pl) ==
            LET sg == TCPSegment(sp, dp, seq, 42, 5, pl)
            IN  ParseTCPPacket(ptr, src_ip, src_ip, dest_ip, Slice(sg, Len(sg)))
    IN  { pkt(1, 80, 54321, 1000, <<104>>),
          pkt(2, 81, 54322, 2000, <<119>>),
          pkt(3, 82, 54323, 3000, <<33>>) }

\* AddPacket(packet), run from call to return with no other goroutine
\* touching the message; it returns nothing
Msg_AddPacket(packet) ==
    /\ consumer.n < MaxCalls
    /\ msgs' = [msgs EXCEPT ![1] =
                  IF packetFound(@.packets, packet)
                  THEN Discarded(@, now)
                  ELSE Appended(@, @.packets, packet, now)]
    /\ consumer' = [consumer EXCEPT !.n = @ + 1]
    /\ ret' = <<>>
    /\ UNCHANGED <<port, buf, c_packets, messages, c_del_message, c_messages,
                   router, gor, now, crashed, verdict, hist>>

\* A call of an accessor that leaves the message as it is
Msg_Read(op, val) ==
    /\ consumer.n < MaxCalls
    /\ ret' = [op |-> op, m |-> 1, val |-> val]
    /\ consumer' = [consumer EXCEPT !.n = @ + 1]
    /\ UNCHANGED <<port, buf, c_packets, messages, c_del_message, c_messages,
                   router, msgs, gor, now, crashed, verdict, hist>>

\* A call of Bytes or SequenceNumber, which sort t.packets in place first
Msg_Sorting(op) ==
    /\ consumer.n < MaxCalls
    /\ LET sorted == SortBySeq(msgs[1].packets)
       IN  /\ msgs' = [msgs EXCEPT ![1].packets = sorted]
           /\ ret' = [op |-> op, m |-> 1,
                      val |-> IF op = "Bytes" THEN Payloads(sorted)
                              ELSE SequenceNumber(sorted)]
    /\ consumer' = [consumer EXCEPT !.n = @ + 1]
    /\ UNCHANGED <<port, buf, c_packets, messages, c_del_message, c_messages,
                   router, gor, now, crashed, verdict, hist>>

\* A TCPMessage as NewTCPMessage leaves it, and a caller that counts its calls
InitMsg ==
    /\ port = 0
    /\ buf = <<>>
    /\ c_packets = <<>>
    /\ messages = <<>>
    /\ c_del_message = <<>>
    /\ c_messages = <<>>
    /\ router = [pc |-> "select"]
    /\ msgs = <<NewTCPMessage("10.0.0.142", 0)>>
    /\ gor = <<>>
    /\ consumer = [pc |-> "call", n |-> 0]
    /\ ret = <<>>
    /\ now = 0
    /\ crashed = FALSE
    /\ verdict = [n |-> 0, v |-> NONE]
    /\ hist = InitHist

NextMsg ==
    \/ \E packet \in MsgPackets : Msg_AddPacket(packet)
    \/ Msg_Sorting("Bytes")
    \/ Msg_Sorting("SequenceNumber")
    \/ Msg_Read("SourcePort", SourcePort(msgs[1].packets))
    \/ Msg_Read("DestinationPort", DestinationPort(msgs[1].packets))
    \/ Msg_Read("SourceIP", SourceIP(msgs[1].packets))
    \/ Msg_Read("DestinationIP", DestinationIP(msgs[1].packets))

SpecMsg == InitMsg /\ [][NextMsg]_vars

\* the held packet of lowest sequence number
C8_Lowest(packets) ==
    CHOOSE p \in Range(packets) : \A q \in Range(packets) : p.Seq <= q.Seq

\* what C8 says accessor op reports of the held packets
C8_Expected(op, packets) ==
    IF packets = <<>>
    THEN (IF op \in {"SourceIP", "DestinationIP"} THEN "0.0.0.0" ELSE 0)
    ELSE CASE op = "SourcePort"      -> C8_Lowest(packets).SrcPort
           [] op = "DestinationPort" -> C8_Lowest(packets).DestPort
           [] op = "SourceIP"        -> C8_Lowest(packets).SrcIP
           [] op = "DestinationIP"   -> C8_Lowest(packets).DestIP
           [] op = "SequenceNumber"  -> C8_Lowest(packets).Seq

\* C8: SourcePort, DestinationPort, SourceIP, DestinationIP and
\* SequenceNumber each report the value of the held packet of lowest sequence
\* number (0 or "0.0.0.0" when none is held), whatever the arrival order and
\* whether or not Bytes or SequenceNumber was called before.
C8_AccessorsReportLowest ==
    (ret # <<>> /\ ret.op # "Bytes") =>
        ret.val = C8_Expected(ret.op, msgs[1].packets)

-----------------------------------------------------------------------------
(* The goroutines under fair scheduling (SpecFair) *)

\* Time passes while a timer is still to expire: an armed runtime timer
\* always gets to its expiry. (Time that passes while no timer is armed
\* changes nothing: timers are armed relative to the clock.)
TickToExpiry ==
    /\ ~crashed
    /\ \E a \in AllMsgs : msgs[a].timer.armed /\ msgs[a].timer.at > now
    /\ now' = now + MSG_EXPIRE
    /\ UNCHANGED <<port, buf, c_packets, messages, c_del_message, c_messages,
                   router, msgs, gor, consumer, ret, crashed, verdict, hist>>

\* The steps of the goroutine of Listener.listen
Router ==
    \/ processTCPPacket_lookup
    \/ processTCPPacket_send
    \/ processTCPPacket_closed
    \/ listen_del
    \/ listen_publish
    \/ listen_delete

\* The steps of goroutine g of TCPMessage a: listen, or a Timeout callback
Goroutine(a, g) ==
    \/ g = ListenG /\ (listen_recv(a) \/ listen_closed(a))
    \/ Timeout_select(a, g)
    \/ Timeout_close(a, g)
    \/ Timeout_notify(a, g)
    \/ AddPacket_scan(a, g)
    \/ AddPacket_load(a, g)
    \/ AddPacket_store(a, g)
    \/ AddPacket_reset(a, g)

NextFair ==
    \/ \E seg \in SpecSegments : Reader(seg)
    \/ Routing
    \/ Consuming
    \/ TickToExpiry

\* The Go scheduler runs every goroutine that can run, the runtime fires every
\* timer that is due, time passes, and the consumer keeps calling Receive.
\* Nothing is asked of the reader: packets may stop arriving at any time.
Fairness ==
    /\ WF_vars(Router)
    /\ \A a \in Msgs : \A g \in Gs : WF_vars(Goroutine(a, g))
    /\ \A a \in Msgs : WF_vars(TimerFires(a))
    /\ WF_vars(TickToExpiry)
    /\ WF_vars(Consuming)

SpecFair == Init /\ [][NextFair]_vars /\ Fairness

\* The router has made Assembler a
Created(a) == a <= Len(msgs)

\* Assembler a has been published on c_messages and removed from the mapping
C18_PublishedAndRemoved(a) ==
    /\ a <= Len(msgs)
    /\ hist.m[a].published >= 1
    /\ hist.m[a].deleted >= 1
    /\ ~C7_Mapped(a)

\* C18: under fair scheduling, with the consumer calling Receive again and
\* again and no more packets arriving, every Assembler the router made is
\* eventually published on the outbound channel and removed from the mapping.
C18_EveryAssemblerPublished ==
    \A a \in Msgs : Created(a) ~> C18_PublishedAndRemoved(a)

-----------------------------------------------------------------------------
(* The consumer stalls (SpecStall) *)

\* A segment of the message with acknowledgment number ack from port 80 of
\* the peer, with one byte of payload
StallSegment(seq, ack) == TCPSegment(80, 54321, seq, ack, 5, <<104>>)

\* The packet ReaderFrom decodes from such a segment as its ptr-th
StallPacket(ptr, seq, ack) ==
    LET src_ip  == inet_ntoa(Uint32(Slice(PeerIP, 4), 0))
        dest_ip == inet_ntoa(Uint32(Slice(HostIP, 4), 0))
        seg     == StallSegment(seq, ack)
    IN  ParseTCPPacket(ptr, src_ip, src_ip, dest_ip, Slice(seg, Len(seg)))

\* A TCPMessage that has completed holding packet
StallCompleted(packet, t) ==
    [ID |-> m_id(packet), packets |-> <<packet>>, closed |-> TRUE,
     timer |-> [armed |-> FALSE, at |-> t]]

\* The outbound channel is full and the router is blocked on it. Three
\* packets of three messages (acknowledgment numbers 42, 2 and 3) have come,
\* at times 0, MSG_EXPIRE and 2 * MSG_EXPIRE. The first message completed at
\* MSG_EXPIRE, was published and removed from the mapping, and Receive has
\* not been called yet. The second completed at 2 * MSG_EXPIRE; the router
\* has taken its notification and is in the send of listen, line 59. The
\* third has just added its packet: its listen goroutine is back at its
\* receive and its timer runs.
InitStall ==
    /\ port = 0
    /\ buf = <<>>
    /\ c_packets = <<>>
    /\ c_del_message = <<>>
    /\ c_messages = <<1>>
    /\ router = [pc |-> "publish", message |-> 2]
    /\ consumer = [pc |-> "recv"]
    /\ ret = <<>>
    /\ now = 2 * MSG_EXPIRE
    /\ crashed = FALSE
    /\ verdict = [n |-> 0, v |-> NONE]
    /\ LET p1 == StallPacket(1, 1000, 42)
           p2 == StallPacket(2, 1000, 2)
           p3 == StallPacket(3, 1000, 3)
           done == <<[pc |-> "done"]>> \o [i \in 1..MaxTimeouts |-> Idle]
       IN  /\ msgs = << StallCompleted(p1, MSG_EXPIRE),
                        StallCompleted(p2, 2 * MSG_EXPIRE),
                        Appended(NewTCPMessage(m_id(p3), now), <<>>, p3, now) >>
           /\ gor = <<done, done, NewGoroutines>>
           /\ messages = (m_id(p2) :> 2) @@ (m_id(p3) :> 3)
           /\ hist = [reads |-> 0, fed |-> 3, added |-> <<1, 1, 1>>,
                      dropped |-> {}, discarded |-> {},
                      m |-> << [NewHist(0) EXCEPT
                                  !.closedAt = MSG_EXPIRE,
                                  !.closerAt = MSG_EXPIRE,
                                  !.held = <<p1>>, !.closes = 1, !.notified = 1,
                                  !.published = 1, !.deleted = 1],
                               [NewHist(MSG_EXPIRE) EXCEPT
                                  !.closedAt = 2 * MSG_EXPIRE,
                                  !.closerAt = 2 * MSG_EXPIRE,
                                  !.held = <<p2>>, !.closes = 1, !.notified = 1],
                               NewHist(2 * MSG_EXPIRE) >>]

\* The segments the reader receives next in SpecStall: of the third message,
\* a retransmission of its first segment, or its next segment.
StallSegments == { StallSegment(1000, 3), StallSegment(2000, 3) }

\* One iteration of the read loop that hands parsePacket a segment of
\* StallSegments
ReaderStall == \E seg \in StallSegments : ReaderFrom(PeerIP, seg, StallPkts)

NextStall ==
    \/ ReaderStall
    \/ Routing
    \/ Consuming
    \/ TickToExpiry

\* As Fairness, but nothing is asked of the consumer, which may stall: call
\* Receive no more. The reader gets its packets in.
FairnessStall ==
    /\ WF_vars(ReaderStall)
    /\ WF_vars(Router)
    /\ \A a \in Msgs : \A g \in Gs : WF_vars(Goroutine(a, g))
    /\ \A a \in Msgs : WF_vars(TimerFires(a))
    /\ WF_vars(TickToExpiry)

SpecStall == InitStall /\ [][NextStall]_vars /\ FairnessStall

\* Assembler a has closed its inbound channel and sent its completion
\* notification, and the router has taken it off the completion channel
C16_Delivered(a) ==
    /\ a <= Len(msgs)
    /\ msgs[a].closed
    /\ hist.m[a].notified >= 1
    /\ \A i \in 1..Len(c_del_message) : c_del_message[i] # a

\* C16: with the consumer stalled and the outbound channel full, every
\* Assembler whose timer expires still closes its inbound channel, and its
\* notification is eventually taken off the completion channel; the Assembler
\* does not stay in its completion path for ever. (A process that has died of
\* a panic is not held against the claim here.)
C16_NotificationsDrain ==
    \A a \in Msgs : Created(a) ~> (C16_Delivered(a) \/ crashed)

-----------------------------------------------------------------------------
(* stripIPv4Header on its own (SpecStrip) *)

\* A buffer of len bytes whose first byte is vihl and whose byte i is i
\* otherwise, so that every byte tells where it came from
StripBuffer(vihl, len) == [i \in 1..len |-> IF i = 1 THEN vihl ELSE i]

\* First bytes: version 4 with header lengths 20, 24, 28, 60, 16 and 0, and
\* header length 20 with versions 6 and 0
StripFirstBytes == {69, 70, 71, 79, 68, 64, 101, 5}

\* Buffer lengths around the shortest header and at the header lengths
StripLens == {0, 1, 19, 20, 21, 24, 28, 59, 60, BufSize}

\* The arguments of a call: the buffer b and the length n of what was read
\* into it, nothing or all of it or less than a header
StripInputs ==
    { [n |-> n, b |-> StripBuffer(v, len)] :
        n \in {0, 12, 20, 28, BufSize}, v \in StripFirstBytes, len \in StripLens }

\* readRAWSocket, line 112: n = stripIPv4Header(n, buf)
callStripIPv4Header ==
    /\ ret = <<>>
    /\ LET res == stripIPv4Header(verdict.n, buf)
       IN  /\ ret' = [op |-> "stripIPv4Header", n |-> verdict.n, b |-> buf,
                      val |-> res]
           /\ buf' = res.b
           /\ verdict' = [verdict EXCEPT !.n = res.n]
    /\ UNCHANGED <<port, c_packets, messages, c_del_message, c_messages, router,
                   msgs, gor, consumer, now, crashed, hist>>

\* A read has put n bytes into a buffer b
InitStrip ==
    /\ port = 0
    /\ \E in \in StripInputs :
          /\ in.n <= Len(in.b)
          /\ buf = in.b
          /\ verdict = [n |-> in.n, v |-> NONE]
    /\ c_packets = <<>>
    /\ messages = <<>>
    /\ c_del_message = <<>>
    /\ c_messages = <<>>
    /\ router = [pc |-> "select"]
    /\ msgs = <<>>
    /\ gor = <<>>
    /\ consumer = [pc |-> "recv"]
    /\ ret = <<>>
    /\ now = 0
    /\ crashed = FALSE
    /\ hist = InitHist

NextStrip == callStripIPv4Header

SpecStrip == InitStrip /\ [][NextStrip]_vars

\* the header length the low nibble of byte 0 announces
C17_HeaderLen(b) == (b[1] % 16) * 4

\* C17: stripIPv4Header removes the IP header only when the version nibble of
\* byte 0 is 4 and the header length (low nibble of byte 0 times four) is
\* between 20 and the buffer length inclusive; then the data that remains
\* starts at the TCP header (the bytes behind the header, moved to the front)
\* and the returned length is the read length minus the header length. On any
\* violation the buffer contents and the length are returned unchanged.
C17_StripsValidHeaderOnly ==
    ret # <<>> =>
        LET b == ret.b
            n == ret.n
            r == ret.val
            valid == /\ b # <<>>
                     /\ b[1] \div 16 = 4
                     /\ 20 <= C17_HeaderLen(b)
                     /\ C17_HeaderLen(b) <= Len(b)
        IN  /\ buf = r.b /\ verdict.n = r.n
            /\ Len(r.b) = Len(b)
            /\ IF valid
               THEN /\ r.n = n - C17_HeaderLen(b)
                    /\ \A i \in 1..(Len(b) - C17_HeaderLen(b)) :
                           r.b[i] = b[C17_HeaderLen(b) + i]
               ELSE r.n = n /\ r.b = b

\* C17's case: a header of 24 bytes (first byte 0x46) was stripped from a full
\* buffer: the byte that was behind the header is now in front, and the
\* length returned is 24 less than the length read.
C17_Witness ==
    /\ ret # <<>>
    /\ Len(ret.b) = BufSize /\ ret.n = BufSize
    /\ ret.b[1] = 70
    /\ ret.val.n = BufSize - 24
    /\ ret.val.b[1] = 25

=============================================================================
